---- MODULE Spec2Model ----
(***************************************************************************)
(* Personal-finance ledger API (FastAPI + SQLAlchemy on PostgreSQL).       *)
(* The store is the four tables usuario / conta / categoria / transacao;   *)
(* every handler of the routers is one action that runs up to its          *)
(* db.commit().  Money is counted in thousandths of the currency unit so   *)
(* that the rounding of the Numeric(10, 2) columns is part of the model.   *)
(***************************************************************************)
EXTENDS Integers, FiniteSets, Sequences, TLC

\* ------------------------------------------------------------------ bounds
MaxUsuarios == 1
MaxContas == 2
MaxCategorias == 2
MaxTransacoes == 1
\* rows the conta, categoria and transacao tables hold together
MaxLinhas == 4
\* fields one TransacaoUpdate body supplies
MaxCampos == 2
\* times POST /seed fills the store in a run of SpecSeed
MaxSemeaduras == 2
\* database sessions (requests in flight) in a run of SpecConc
MaxSessoes == 2
\* ledger requests begun in a run of SpecConc
MaxServidos == 3
\* registered users in a run of SpecMulti
MaxPessoas == 2
\* transactions created in a run of SpecLivro
MaxLancamentos == 2
\* largest magnitude of a saldo the runs of Spec go to
MaxSaldo == 20

\* thousandths per cent: Numeric(10, 2) keeps two fractional digits
Quantum == 10

Emails == {"joao", "maria"}
\* passwords of the requests (those of the seeded users)
Senhas == {"senha123", "senha456"}
Datas == {1, 2}
Tipos == {"receita", "despesa"}
\* request amounts: 0.005, 0.01, 0.02
Valores == {5, 10, 20}
\* amounts a request body may carry: -0.01, 0, 0.001, 0.01
ValoresPedidos == {-10, 0, 1, 10}
\* request balances of ContaCreate / ContaUpdate (ge=0)
SaldosEntrada == {0, 10}
\* an optional request field: {} when the body leaves it unset, {v} otherwise
Unset == {}
Opt(S) == {Unset} \cup {{x} : x \in S}
Given(o, old) == IF o = Unset THEN old ELSE CHOOSE x \in o : TRUE

VARIABLES
    usuarios,      \* id_usuario -> [email, senha]
    contas,        \* id_conta -> [id_usuario, saldo]
    categorias,    \* id_categoria -> [id_usuario, tipo]
    transacoes,    \* id_transacao -> [id_usuario, id_conta, id_categoria, tipo, valor, data]
    seq,           \* next value of each table's serial primary key
    saldo_inicial, \* history: the saldo each existing account was created with
    resp,          \* status code of the last response (0 before the first)
    criada,        \* history: the transaction the last request created, and the
                   \* saldo of its account before that request
    sess,          \* per database session: the request it is serving, the rows
                   \* it has read and its uncommitted writes
    pedido,        \* history: the last request (operation, caller, path id) and
                   \* the number of transaction rows it found, and whether
                   \* it is a lookup that repeats the request before it
    corpo,         \* body of the last response to a lookup
    servidos,      \* history: ledger requests the sessions have begun
    tokens         \* the access tokens login has issued: the "sub" each carries
                   \* and, as history, the user it was issued to

vars == <<usuarios, contas, categorias, transacoes, seq, saldo_inicial, resp, criada, sess,
          pedido, corpo, servidos, tokens>>
store == <<usuarios, contas, categorias, transacoes, seq, saldo_inicial>>

\* ----------------------------------------------------------------- helpers
Empty == [x \in {} |-> 0]
Put(f, k, v) == [x \in DOMAIN f \cup {k} |-> IF x = k THEN v ELSE f[x]]
Drop(f, S) == [x \in DOMAIN f \ S |-> f[x]]
Abs(x) == IF x < 0 THEN -x ELSE x

\* PostgreSQL stores a value in a Numeric(10, 2) column rounded to two
\* fractional digits, ties away from zero
Quantize(x) ==
    IF x >= 0 THEN ((x + (Quantum \div 2)) \div Quantum) * Quantum
    ELSE -((((-x) + (Quantum \div 2)) \div Quantum) * Quantum)

\* signed contribution of a transaction to its account
Delta(tipo, valor) == IF tipo = "receita" THEN valor ELSE -valor

Reply(op, status) == resp' = status

Linhas == Cardinality(DOMAIN contas) + Cardinality(DOMAIN categorias)
          + Cardinality(DOMAIN transacoes)

\* variants of the queries that leave the id_usuario filter out
ContaDe_qualquer(u, id) == id \in DOMAIN contas
CategoriaDe_qualquer(u, id) == id \in DOMAIN categorias
TransacaoDe_qualquer(u, id) == id \in DOMAIN transacoes
\* db.query(Conta).filter(id_conta == id, id_usuario == u).first()
ContaDe(u, id) == id \in DOMAIN contas /\ contas[id].id_usuario = u
CategoriaDe(u, id) == id \in DOMAIN categorias /\ categorias[id].id_usuario = u
TransacaoDe(u, id) == id \in DOMAIN transacoes /\ transacoes[id].id_usuario = u

Nenhuma == [id |-> 0, saldo |-> 0]
Nenhum == [op |-> "none", u |-> 0, id |-> 0, antes |-> 0, repetido |-> FALSE]

\* response_model validation: TransacaoResponse inherits valor gt=0 from
\* TransacaoBase and ContaResponse inherits saldo ge=0 from ContaBase; a row
\* that fails it makes the handler answer 500 after its commit
TransacaoResponse(t) == t.valor > 0
ContaResponse(c) == c.saldo >= 0
Responde(valida, status) == IF valida THEN status ELSE 500
Sessoes == 1..MaxSessoes
\* a session of get_db that serves no request
Livre == [pc |-> "livre", op |-> "none", conta |-> 0, saldo |-> 0, id |-> 0, linha |-> <<>>]

Init ==
    /\ usuarios = Empty
    /\ contas = Empty
    /\ categorias = Empty
    /\ transacoes = Empty
    /\ seq = [usuario |-> 1, conta |-> 1, categoria |-> 1, transacao |-> 1]
    /\ saldo_inicial = Empty
    /\ resp = 0
    /\ criada = Nenhuma
    /\ sess = [s \in Sessoes |-> Livre]
    /\ pedido = Nenhum
    /\ corpo = {}
    /\ servidos = 0
    /\ tokens = {}

\* ---------------------------------------------------------------- usuarios
\* hashlib.sha256(password.encode()).hexdigest(): one digest per password
hash_password(password) == <<"sha256", password>>
get_password_hash(password) == hash_password(password)
verify_password(plain_password, hashed_password) ==
    hash_password(plain_password) = hashed_password

create_usuario(email, senha) ==
    IF \E u \in DOMAIN usuarios : usuarios[u].email = email
    THEN /\ Reply("create_usuario", 400)
         /\ UNCHANGED store
    ELSE /\ usuarios' = Put(usuarios, seq.usuario,
                            [email |-> email, senha |-> get_password_hash(senha)])
         /\ seq' = [seq EXCEPT !.usuario = @ + 1]
         /\ Reply("create_usuario", 201)
         /\ UNCHANGED <<contas, categorias, transacoes, saldo_inicial>>

\* "existing = db.query(Usuario).filter(Usuario.email == email).first()"
Registado(e) == \E u \in DOMAIN usuarios : usuarios[u].email = e

\* a variant without the permission check
update_usuario_sem_permissao(u, id, email, senha) ==
    /\ u \in DOMAIN usuarios
    /\ IF id \notin DOMAIN usuarios
       THEN /\ Reply("update_usuario", 404)
            /\ UNCHANGED store
       ELSE IF \E e \in email : e # usuarios[id].email /\ Registado(e)
       THEN /\ Reply("update_usuario", 400)
            /\ UNCHANGED store
       ELSE /\ usuarios' = [usuarios EXCEPT ![id] =
                   [email |-> Given(email, @.email),
                    senha |-> Given({get_password_hash(x) : x \in senha}, @.senha)]]
            /\ Reply("update_usuario", 200)
            /\ UNCHANGED <<contas, categorias, transacoes, seq, saldo_inicial>>

\* the body of UsuarioUpdate: email and senha optional (nome is not modelled)
update_usuario(u, id, email, senha) ==
    /\ u \in DOMAIN usuarios
    /\ IF u # id
       THEN /\ Reply("update_usuario", 403)
            /\ UNCHANGED store
       ELSE IF \E e \in email : e # usuarios[id].email /\ Registado(e)
       THEN /\ Reply("update_usuario", 400)
            /\ UNCHANGED store
       ELSE /\ usuarios' = [usuarios EXCEPT ![id] =
                   [email |-> Given(email, @.email),
                    senha |-> Given({get_password_hash(x) : x \in senha}, @.senha)]]
            /\ Reply("update_usuario", 200)
            /\ UNCHANGED <<contas, categorias, transacoes, seq, saldo_inicial>>

\* a variant that removes the user row alone
delete_usuario_sem_cascata(u, id) ==
    /\ u \in DOMAIN usuarios
    /\ IF u # id
       THEN /\ Reply("delete_usuario", 403)
            /\ UNCHANGED store
       ELSE /\ usuarios' = Drop(usuarios, {id})
            /\ Reply("delete_usuario", 200)
            /\ UNCHANGED <<contas, categorias, transacoes, seq, saldo_inicial>>

\* Usuario.contas / categorias / transacoes are cascade="all, delete-orphan"
delete_usuario(u, id) ==
    /\ u \in DOMAIN usuarios
    /\ IF u # id
       THEN /\ Reply("delete_usuario", 403)
            /\ UNCHANGED store
       ELSE LET cs == {c \in DOMAIN contas : contas[c].id_usuario = id}
                ks == {k \in DOMAIN categorias : categorias[k].id_usuario = id}
                ts == {t \in DOMAIN transacoes : transacoes[t].id_usuario = id}
            IN  /\ usuarios' = Drop(usuarios, {id})
                /\ contas' = Drop(contas, cs)
                /\ saldo_inicial' = Drop(saldo_inicial, cs)
                /\ categorias' = Drop(categorias, ks)
                /\ transacoes' = Drop(transacoes, ts)
                /\ Reply("delete_usuario", 200)
                /\ UNCHANGED seq

\* ------------------------------------------------------------------ contas
\* nome and the tipo label are free text no handler reads; they are left out
create_conta(u, saldo) ==
    /\ u \in DOMAIN usuarios
    /\ contas' = Put(contas, seq.conta,
                     [id_usuario |-> u, saldo |-> Quantize(saldo)])
    /\ saldo_inicial' = Put(saldo_inicial, seq.conta, Quantize(saldo))
    /\ seq' = [seq EXCEPT !.conta = @ + 1]
    /\ Reply("create_conta", Responde(ContaResponse([saldo |-> Quantize(saldo)]), 201))
    /\ UNCHANGED <<usuarios, categorias, transacoes>>

\* ContaUpdate carries nome, the tipo label and saldo; every supplied field
\* is written onto the row by setattr
update_conta(u, id, saldo) ==
    /\ u \in DOMAIN usuarios
    /\ IF ~ContaDe(u, id)
       THEN /\ Reply("update_conta", 404)
            /\ UNCHANGED store
       ELSE /\ contas' = [contas EXCEPT ![id].saldo = Quantize(Given(saldo, @))]
            /\ Reply("update_conta", Responde(ContaResponse(contas'[id]), 200))
            /\ UNCHANGED <<usuarios, categorias, transacoes, seq, saldo_inicial>>

\* Conta.transacoes is cascade="all, delete-orphan"
delete_conta(u, id) ==
    /\ u \in DOMAIN usuarios
    /\ IF ~ContaDe(u, id)
       THEN /\ Reply("delete_conta", 404)
            /\ UNCHANGED store
       ELSE /\ contas' = Drop(contas, {id})
            /\ saldo_inicial' = Drop(saldo_inicial, {id})
            /\ transacoes' = Drop(transacoes,
                                  {t \in DOMAIN transacoes : transacoes[t].id_conta = id})
            /\ Reply("delete_conta", 200)
            /\ UNCHANGED <<usuarios, categorias, seq>>

\* -------------------------------------------------------------- categorias
create_categoria(u, tipo) ==
    /\ u \in DOMAIN usuarios
    /\ categorias' = Put(categorias, seq.categoria, [id_usuario |-> u, tipo |-> tipo])
    /\ seq' = [seq EXCEPT !.categoria = @ + 1]
    /\ Reply("create_categoria", 201)
    /\ UNCHANGED <<usuarios, contas, transacoes, saldo_inicial>>

update_categoria(u, id, tipo) ==
    /\ u \in DOMAIN usuarios
    /\ IF ~CategoriaDe(u, id)
       THEN /\ Reply("update_categoria", 404)
            /\ UNCHANGED store
       ELSE /\ categorias' = [categorias EXCEPT ![id].tipo = Given(tipo, @)]
            /\ Reply("update_categoria", 200)
            /\ UNCHANGED <<usuarios, contas, transacoes, seq, saldo_inicial>>

\* Categoria.transacoes is cascade="all, delete-orphan": the rows go, no
\* handler code touches the accounts
delete_categoria(u, id) ==
    /\ u \in DOMAIN usuarios
    /\ IF ~CategoriaDe(u, id)
       THEN /\ Reply("delete_categoria", 404)
            /\ UNCHANGED store
       ELSE /\ categorias' = Drop(categorias, {id})
            /\ transacoes' = Drop(transacoes,
                                  {t \in DOMAIN transacoes : transacoes[t].id_categoria = id})
            /\ Reply("delete_categoria", 200)
            /\ UNCHANGED <<usuarios, contas, seq, saldo_inicial>>

\* -------------------------------------------------------------- transacoes
\* a variant of the check that lets every tipo through
TipoConfere_sem(tipo, id_categoria) == TRUE
\* "if transacao_data.tipo != categoria.tipo: raise 400"
TipoConfere(tipo, id_categoria) == tipo = categorias[id_categoria].tipo

create_transacao(u, id_conta, id_categoria, tipo, valor, data) ==
    /\ u \in DOMAIN usuarios
    /\ IF ~ContaDe(u, id_conta) \/ ~CategoriaDe(u, id_categoria)
       THEN /\ Reply("create_transacao", 404)
            /\ UNCHANGED store
       ELSE IF ~TipoConfere(tipo, id_categoria)
       THEN /\ Reply("create_transacao", 400)
            /\ UNCHANGED store
       ELSE LET novo == contas[id_conta].saldo + Delta(tipo, valor)
            IN  /\ contas' = [contas EXCEPT ![id_conta].saldo = Quantize(novo)]
                /\ transacoes' = Put(transacoes, seq.transacao,
                       [id_usuario |-> u, id_conta |-> id_conta,
                        id_categoria |-> id_categoria, tipo |-> tipo,
                        valor |-> Quantize(valor), data |-> data])
                /\ seq' = [seq EXCEPT !.transacao = @ + 1]
                /\ Reply("create_transacao",
                         Responde(TransacaoResponse(transacoes'[seq.transacao]), 201))
                /\ UNCHANGED <<usuarios, categorias, saldo_inicial>>

\* transacao.conta is loaded once (conta_antiga); assigning the id_conta
\* column afterwards does not reload the relationship (autoflush=False, no
\* expire before line 203), so conta_nova is the same loaded object
conta_antiga(id) == transacoes[id].id_conta
conta_nova(id, upd) == conta_antiga(id)

\* the row after "for field, value in update_data.items(): setattr(...)"
Aplicada(t, upd) ==
    [id_usuario |-> t.id_usuario,
     id_conta |-> Given(upd.id_conta, t.id_conta),
     id_categoria |-> Given(upd.id_categoria, t.id_categoria),
     tipo |-> Given(upd.tipo, t.tipo),
     valor |-> Given(upd.valor, t.valor),
     data |-> Given(upd.data, t.data)]

update_transacao(u, id, upd) ==
    /\ u \in DOMAIN usuarios
    /\ IF ~TransacaoDe(u, id)
       THEN /\ Reply("update_transacao", 404)
            /\ UNCHANGED store
       ELSE IF \/ \E c \in upd.id_conta : ~ContaDe(u, c)
               \/ \E k \in upd.id_categoria : ~CategoriaDe(u, k)
       THEN /\ Reply("update_transacao", 404)
            /\ UNCHANGED store
       ELSE LET t == transacoes[id]
                n == Aplicada(t, upd)
                a == conta_antiga(id)
                b == conta_nova(id, upd)
                s1 == [contas EXCEPT ![a].saldo = @ - Delta(t.tipo, t.valor)]
                s2 == [s1 EXCEPT ![b].saldo = @ + Delta(n.tipo, n.valor)]
            IN  /\ contas' = [c \in DOMAIN contas |->
                                 [s2[c] EXCEPT !.saldo = Quantize(@)]]
                /\ transacoes' = [transacoes EXCEPT ![id] =
                                     [n EXCEPT !.valor = Quantize(@)]]
                /\ Reply("update_transacao", Responde(TransacaoResponse(transacoes'[id]), 200))
                /\ UNCHANGED <<usuarios, categorias, seq, saldo_inicial>>

\* a variant that takes the delta off every account of the caller
delete_transacao_todas(u, id) ==
    /\ u \in DOMAIN usuarios
    /\ IF ~TransacaoDe(u, id)
       THEN /\ Reply("delete_transacao", 404)
            /\ UNCHANGED store
       ELSE LET t == transacoes[id]
            IN  /\ contas' = [c \in DOMAIN contas |->
                       IF contas[c].id_usuario = u
                       THEN [contas[c] EXCEPT !.saldo = Quantize(@ - Delta(t.tipo, t.valor))]
                       ELSE contas[c]]
                /\ transacoes' = Drop(transacoes, {id})
                /\ Reply("delete_transacao", 200)
                /\ UNCHANGED <<usuarios, categorias, seq, saldo_inicial>>

delete_transacao(u, id) ==
    /\ u \in DOMAIN usuarios
    /\ IF ~TransacaoDe(u, id)
       THEN /\ Reply("delete_transacao", 404)
            /\ UNCHANGED store
       ELSE LET t == transacoes[id]
                novo == contas[t.id_conta].saldo - Delta(t.tipo, t.valor)
            IN  /\ contas' = [contas EXCEPT ![t.id_conta].saldo = Quantize(novo)]
                /\ transacoes' = Drop(transacoes, {id})
                /\ Reply("delete_transacao", 200)
                /\ UNCHANGED <<usuarios, categorias, seq, saldo_inicial>>

\* the bodies of TransacaoUpdate: every field optional
NoUpdate == [valor |-> Unset, data |-> Unset, tipo |-> Unset, id_conta |-> Unset, id_categoria |-> Unset]
Campos(upd) ==
    Cardinality(upd.valor) + Cardinality(upd.data) + Cardinality(upd.tipo)
    + Cardinality(upd.id_conta) + Cardinality(upd.id_categoria)
Updates ==
    [valor : Opt(Valores), data : Opt(Datas), tipo : Opt(Tipos),
     id_conta : Opt(1..MaxContas), id_categoria : Opt(1..MaxCategorias)]

\* ----------------------------------------------------------------- lookups
\* the fields of a stored row as a response shows them
Linha(id) ==
    [id_transacao |-> id, id_usuario |-> transacoes[id].id_usuario,
     id_conta |-> transacoes[id].id_conta, id_categoria |-> transacoes[id].id_categoria,
     tipo |-> transacoes[id].tipo, valor |-> transacoes[id].valor,
     data |-> transacoes[id].data]

\* a variant that removes the row it returns
get_transacao_consome(u, id) ==
    /\ u \in DOMAIN usuarios
    /\ IF ~TransacaoDe(u, id)
       THEN /\ Reply("get_transacao", 404)
            /\ corpo' = {}
            /\ UNCHANGED store
       ELSE /\ Reply("get_transacao", Responde(TransacaoResponse(transacoes[id]), 200))
            /\ corpo' = IF TransacaoResponse(transacoes[id]) THEN {Linha(id)} ELSE {}
            /\ transacoes' = Drop(transacoes, {id})
            /\ UNCHANGED <<usuarios, contas, categorias, seq, saldo_inicial>>

get_transacao(u, id) ==
    /\ u \in DOMAIN usuarios
    /\ IF ~TransacaoDe(u, id)
       THEN /\ Reply("get_transacao", 404)
            /\ corpo' = {}
       ELSE /\ Reply("get_transacao", Responde(TransacaoResponse(transacoes[id]), 200))
            /\ corpo' = IF TransacaoResponse(transacoes[id]) THEN {Linha(id)} ELSE {}
    /\ UNCHANGED store

\* no filter, default skip and limit; the rank of rows of equal data is not
\* fixed by ORDER BY data DESC, so the body is kept as the set of its rows
list_transacoes(u) ==
    LET ts == {t \in DOMAIN transacoes : transacoes[t].id_usuario = u}
        valida == \A t \in ts : TransacaoResponse(transacoes[t])
    IN  /\ u \in DOMAIN usuarios
        /\ Reply("list_transacoes", Responde(valida, 200))
        /\ corpo' = IF valida THEN {Linha(t) : t \in ts} ELSE {}
        /\ UNCHANGED store

get_conta(u, id) ==
    /\ u \in DOMAIN usuarios
    /\ IF ~ContaDe(u, id)
       THEN /\ Reply("get_conta", 404)
            /\ corpo' = {}
       ELSE /\ Reply("get_conta", Responde(ContaResponse(contas[id]), 200))
            /\ corpo' = IF ContaResponse(contas[id])
                        THEN {[id_conta |-> id, id_usuario |-> u, saldo |-> contas[id].saldo]}
                        ELSE {}
    /\ UNCHANGED store

get_categoria(u, id) ==
    /\ u \in DOMAIN usuarios
    /\ IF ~CategoriaDe(u, id)
       THEN /\ Reply("get_categoria", 404)
            /\ corpo' = {}
       ELSE /\ Reply("get_categoria", 200)
            /\ corpo' = {[id_categoria |-> id, id_usuario |-> u, tipo |-> categorias[id].tipo]}
    /\ UNCHANGED store

\* ------------------------------------------------------- request validation
\* FastAPI validates the body against the handler's schema before it calls
\* the handler; a body that fails is answered 422
TransacaoCreate(valor) == valor > 0
\* a variant of the schema without the gt=0 constraint
TransacaoUpdate_livre(upd) == TRUE
TransacaoUpdate(upd) == \A v \in upd.valor : v > 0

rota_create_transacao(u, id_conta, id_categoria, tipo, valor, data) ==
    IF ~TransacaoCreate(valor)
    THEN /\ u \in DOMAIN usuarios
         /\ Reply("create_transacao", 422)
         /\ UNCHANGED store
    ELSE create_transacao(u, id_conta, id_categoria, tipo, valor, data)

rota_update_transacao(u, id, upd) ==
    IF ~TransacaoUpdate(upd)
    THEN /\ u \in DOMAIN usuarios
         /\ Reply("update_transacao", 422)
         /\ UNCHANGED store
    ELSE update_transacao(u, id, upd)

\* ----------------------------------------------------- concurrent requests
\* Each request runs in its own Session (get_db), on PostgreSQL's default READ
\* COMMITTED isolation.  A ledger handler is three steps: its queries up to the
\* in-memory "conta.saldo +=" (ler), the flush that db.commit() starts, whose
\* UPDATE conta SET saldo = <value> takes the row lock (escrever), and the
\* COMMIT that publishes the writes and frees the lock (confirmar).
\* a variant in which a flushed session holds every account row
Trancada_global(c, s) == \E o \in Sessoes \ {s} : sess[o].pc = "escrito"
Trancada(c, s) == \E o \in Sessoes \ {s} : sess[o].pc = "escrito" /\ sess[o].conta = c
\* the UPDATE or DELETE of a transacao row locks that row as well
LinhaTrancada(id, s) ==
    \E o \in Sessoes \ {s} :
       sess[o].pc = "escrito" /\ sess[o].op \in {"update", "delete"} /\ sess[o].id = id

ler_create_transacao(s, u, id_conta, id_categoria, tipo, valor, data) ==
    /\ sess[s].pc = "livre"
    /\ u \in DOMAIN usuarios
    /\ IF ~ContaDe(u, id_conta) \/ ~CategoriaDe(u, id_categoria)
       THEN /\ Reply("create_transacao", 404)
            /\ UNCHANGED <<store, sess>>
       ELSE IF ~TipoConfere(tipo, id_categoria)
       THEN /\ Reply("create_transacao", 400)
            /\ UNCHANGED <<store, sess>>
       ELSE /\ sess' = [sess EXCEPT ![s] =
                   [pc |-> "lido", op |-> "create", conta |-> id_conta,
                    saldo |-> contas[id_conta].saldo + Delta(tipo, valor), id |-> 0,
                    linha |-> [id_usuario |-> u, id_conta |-> id_conta,
                               id_categoria |-> id_categoria, tipo |-> tipo,
                               valor |-> Quantize(valor), data |-> data]]]
            /\ UNCHANGED <<store, resp>>

ler_delete_transacao(s, u, id) ==
    /\ sess[s].pc = "livre"
    /\ u \in DOMAIN usuarios
    /\ IF ~TransacaoDe(u, id)
       THEN /\ Reply("delete_transacao", 404)
            /\ UNCHANGED <<store, sess>>
       ELSE LET t == transacoes[id]
            IN  /\ sess' = [sess EXCEPT ![s] =
                       [pc |-> "lido", op |-> "delete", conta |-> t.id_conta,
                        saldo |-> contas[t.id_conta].saldo - Delta(t.tipo, t.valor),
                        id |-> id, linha |-> <<>>]]
                /\ UNCHANGED <<store, resp>>

\* the session keeps the supplied fields (linha) and the saldo it computed:
\* the old delta taken off and the new one put on the loaded account
ler_update_transacao(s, u, id, upd) ==
    /\ sess[s].pc = "livre"
    /\ u \in DOMAIN usuarios
    /\ IF ~TransacaoDe(u, id)
       THEN /\ Reply("update_transacao", 404)
            /\ UNCHANGED <<store, sess>>
       ELSE IF \/ \E c \in upd.id_conta : ~ContaDe(u, c)
               \/ \E k \in upd.id_categoria : ~CategoriaDe(u, k)
       THEN /\ Reply("update_transacao", 404)
            /\ UNCHANGED <<store, sess>>
       ELSE LET t == transacoes[id]
                n == Aplicada(t, upd)
                a == conta_antiga(id)
            IN  /\ sess' = [sess EXCEPT ![s] =
                       [pc |-> "lido", op |-> "update", conta |-> a,
                        saldo |-> contas[a].saldo - Delta(t.tipo, t.valor)
                                  + Delta(n.tipo, n.valor),
                        id |-> id, linha |-> upd]]
                /\ UNCHANGED <<store, resp>>

\* the flush: the UPDATE waits while another session holds the account row or
\* the transaction row; the INSERT draws the new key from the sequence; an
\* UPDATE of a transaction row that is gone matches no row, which the ORM
\* raises as an error
escrever(s) ==
    /\ sess[s].pc = "lido"
    /\ ~Trancada(sess[s].conta, s)
    /\ sess[s].op \in {"update", "delete"} => ~LinhaTrancada(sess[s].id, s)
    /\ IF sess[s].op = "create"
       THEN /\ sess' = [sess EXCEPT ![s].pc = "escrito", ![s].id = seq.transacao]
            /\ seq' = [seq EXCEPT !.transacao = @ + 1]
            /\ UNCHANGED resp
       ELSE IF sess[s].op = "update" /\ sess[s].id \notin DOMAIN transacoes
       THEN /\ sess' = [sess EXCEPT ![s] = Livre]
            /\ Reply("update_transacao", 500)
            /\ UNCHANGED seq
       ELSE /\ sess' = [sess EXCEPT ![s].pc = "escrito"]
            /\ UNCHANGED <<seq, resp>>
    /\ UNCHANGED <<usuarios, contas, categorias, transacoes, saldo_inicial>>

\* a variant of the failure that keeps the saldo write and loses the row write
falhar_parcial(s) ==
    /\ sess[s].pc = "escrito"
    /\ contas' = [contas EXCEPT ![sess[s].conta].saldo = Quantize(sess[s].saldo)]
    /\ sess' = [sess EXCEPT ![s] = Livre]
    /\ Reply(sess[s].op, 500)
    /\ UNCHANGED <<usuarios, categorias, transacoes, seq, saldo_inicial>>

\* a failure before or in db.commit(): no handler catches it, the request is
\* answered 500, and get_db closes the session, which rolls back what it had
\* flushed (the value drawn from the sequence is not given back)
falhar(s) ==
    /\ sess[s].pc \in {"lido", "escrito"}
    /\ sess' = [sess EXCEPT ![s] = Livre]
    /\ Reply(sess[s].op, 500)
    /\ UNCHANGED store

\* COMMIT: the session's value of saldo replaces the stored one; a DELETE whose
\* row another session already removed matches no row (a warning, no error)
confirmar(s) ==
    /\ sess[s].pc = "escrito"
    /\ contas' = [contas EXCEPT ![sess[s].conta].saldo = Quantize(sess[s].saldo)]
    /\ IF sess[s].op = "create"
       THEN /\ transacoes' = Put(transacoes, sess[s].id, sess[s].linha)
            /\ Reply("create_transacao", Responde(TransacaoResponse(sess[s].linha), 201))
       ELSE IF sess[s].op = "update"
       THEN /\ transacoes' = [transacoes EXCEPT ![sess[s].id] =
                   [Aplicada(@, sess[s].linha) EXCEPT !.valor = Quantize(@)]]
            /\ Reply("update_transacao",
                     Responde(TransacaoResponse(transacoes'[sess[s].id]), 200))
       ELSE /\ transacoes' = Drop(transacoes, {sess[s].id})
            /\ Reply("delete_transacao", 200)
    /\ sess' = [sess EXCEPT ![s] = Livre]
    /\ UNCHANGED <<usuarios, categorias, seq, saldo_inicial>>

\* --------------------------------------------------------------------- auth
\* POST /auth/login: the token carries "sub": user.email (and an expiry, which
\* only ever turns an answer into 401 and is left out)
login(email, senha) ==
    /\ IF \E u \in DOMAIN usuarios :
             usuarios[u].email = email /\ verify_password(senha, usuarios[u].senha)
       THEN LET u == CHOOSE x \in DOMAIN usuarios : usuarios[x].email = email
            IN  /\ tokens' = tokens \cup {[sub |-> email, id_usuario |-> u]}
                /\ Reply("login", 200)
       ELSE /\ Reply("login", 401)
            /\ UNCHANGED tokens
    /\ UNCHANGED store

\* "user = db.query(Usuario).filter(Usuario.email == email).first()": the id of
\* the user found, 0 when none is (401)
get_current_user(token) ==
    LET us == {u \in DOMAIN usuarios : usuarios[u].email = token.sub}
    IN  IF us = {} THEN 0 ELSE CHOOSE u \in us : TRUE

\* GET /usuarios/me
get_current_user_info(token) ==
    LET u == get_current_user(token)
    IN  /\ IF u = 0
           THEN /\ Reply("get_current_user_info", 401)
                /\ corpo' = {}
           ELSE /\ Reply("get_current_user_info", 200)
                /\ corpo' = {[id_usuario |-> u, email |-> usuarios[u].email]}
        /\ UNCHANGED store

\* PUT and DELETE /usuarios/{id} behind Depends(get_current_user)
rota_update_usuario(token, id, email, senha) ==
    IF get_current_user(token) = 0
    THEN Reply("update_usuario", 401) /\ UNCHANGED store
    ELSE update_usuario(get_current_user(token), id, email, senha)

rota_delete_usuario(token, id) ==
    IF get_current_user(token) = 0
    THEN Reply("delete_usuario", 401) /\ UNCHANGED store
    ELSE delete_usuario(get_current_user(token), id)

\* create_usuario served by a session: the query for the email (ler), the
\* INSERT that db.commit() flushes (inserir) and the COMMIT (confirmar).
\* Usuario.email is unique=True: the INSERT waits while another session holds
\* an uncommitted row with the same email, and fails when a committed row has
\* it; the value it drew from the sequence is not given back.
ler_create_usuario(s, email, senha) ==
    /\ sess[s].pc = "livre"
    /\ IF Registado(email)
       THEN /\ Reply("create_usuario", 400)
            /\ UNCHANGED sess
       ELSE /\ sess' = [sess EXCEPT ![s] =
                   [pc |-> "lido", op |-> "registo", conta |-> 0, saldo |-> 0, id |-> 0,
                    linha |-> [email |-> email, senha |-> get_password_hash(senha)]]]
            /\ UNCHANGED resp
    /\ UNCHANGED store

Pendente(e, s) ==
    \E o \in Sessoes \ {s} :
       sess[o].pc = "escrito" /\ sess[o].op = "registo" /\ sess[o].linha.email = e

\* a variant without the unique index
inserir_usuario_sem_indice(s) ==
    /\ sess[s].pc = "lido" /\ sess[s].op = "registo"
    /\ sess' = [sess EXCEPT ![s].pc = "escrito", ![s].id = seq.usuario]
    /\ seq' = [seq EXCEPT !.usuario = @ + 1]
    /\ UNCHANGED <<usuarios, contas, categorias, transacoes, saldo_inicial, resp>>

inserir_usuario(s) ==
    /\ sess[s].pc = "lido" /\ sess[s].op = "registo"
    /\ ~Pendente(sess[s].linha.email, s)
    /\ IF Registado(sess[s].linha.email)
       THEN /\ sess' = [sess EXCEPT ![s] = Livre]
            /\ Reply("create_usuario", 500)
       ELSE /\ sess' = [sess EXCEPT ![s].pc = "escrito", ![s].id = seq.usuario]
            /\ UNCHANGED resp
    /\ seq' = [seq EXCEPT !.usuario = @ + 1]
    /\ UNCHANGED <<usuarios, contas, categorias, transacoes, saldo_inicial>>

confirmar_usuario(s) ==
    /\ sess[s].pc = "escrito" /\ sess[s].op = "registo"
    /\ usuarios' = Put(usuarios, sess[s].id, sess[s].linha)
    /\ sess' = [sess EXCEPT ![s] = Livre]
    /\ Reply("create_usuario", 201)
    /\ UNCHANGED <<contas, categorias, transacoes, seq, saldo_inicial>>

\* ------------------------------------------------------------------- main
\* whole currency units in thousandths
Reais(n) == n * 100 * Quantum
Rows(first, rows) == [i \in first..(first + Len(rows) - 1) |-> rows[i - first + 1]]
Junta(f, g) == [x \in DOMAIN f \cup DOMAIN g |-> IF x \in DOMAIN g THEN g[x] ELSE f[x]]

\* a variant that leaves the usuario table as it is
limpar_dados_parcial ==
    /\ transacoes' = Empty
    /\ categorias' = Empty
    /\ contas' = Empty
    /\ saldo_inicial' = Empty
    /\ Reply("limpar_dados", 200)
    /\ UNCHANGED <<usuarios, seq>>

\* DELETE /limpar-dados: bulk delete of the four tables, no authentication
limpar_dados ==
    /\ transacoes' = Empty
    /\ categorias' = Empty
    /\ contas' = Empty
    /\ saldo_inicial' = Empty
    /\ usuarios' = Empty
    /\ Reply("limpar_dados", 200)
    /\ UNCHANGED seq

\* POST /seed: the rows are added with their saldo and valor as written, the
\* handler runs no balance arithmetic
seed_database ==
    IF DOMAIN usuarios # {}
    THEN /\ Reply("seed_database", 200)
         /\ UNCHANGED store
    ELSE LET u1 == seq.usuario
             u2 == seq.usuario + 1
             c == seq.conta
             k == seq.categoria
             novas_contas == Rows(c, <<
                 [id_usuario |-> u1, saldo |-> Reais(5000)],
                 [id_usuario |-> u1, saldo |-> Reais(10000)],
                 [id_usuario |-> u1, saldo |-> Reais(25000)],
                 [id_usuario |-> u2, saldo |-> Reais(3000)],
                 [id_usuario |-> u2, saldo |-> Reais(500)] >>)
             novas_categorias == Rows(k, <<
                 [id_usuario |-> u1, tipo |-> "receita"],
                 [id_usuario |-> u1, tipo |-> "receita"],
                 [id_usuario |-> u1, tipo |-> "receita"],
                 [id_usuario |-> u1, tipo |-> "despesa"],
                 [id_usuario |-> u1, tipo |-> "despesa"],
                 [id_usuario |-> u1, tipo |-> "despesa"] >>)
             T(valor, data, tipo, cat) ==
                 [id_usuario |-> u1, id_conta |-> c, id_categoria |-> k + cat,
                  tipo |-> tipo, valor |-> Reais(valor), data |-> data]
             novas_transacoes == Rows(seq.transacao, <<
                 T(5000, 1, "receita", 0),
                 T(1500, 15, "receita", 1),
                 T(800, 5, "despesa", 5),
                 T(250, 8, "despesa", 3),
                 T(150, 10, "despesa", 4) >>)
         IN  /\ usuarios' = Junta(usuarios, Rows(u1, <<
                 [email |-> "joao", senha |-> get_password_hash("senha123")],
                 [email |-> "maria", senha |-> get_password_hash("senha456")] >>))
             /\ contas' = Junta(contas, novas_contas)
             /\ saldo_inicial' = Junta(saldo_inicial,
                                       [x \in DOMAIN novas_contas |-> novas_contas[x].saldo])
             /\ categorias' = Junta(categorias, novas_categorias)
             /\ transacoes' = Junta(transacoes, novas_transacoes)
             /\ seq' = [usuario |-> seq.usuario + 2, conta |-> seq.conta + 5,
                        categoria |-> seq.categoria + 6, transacao |-> seq.transacao + 5]
             /\ Reply("seed_database", 200)

\* ---------------------------------------------------------- specification
\* history of the last request
Historia ==
    LET novas == DOMAIN transacoes' \ DOMAIN transacoes
    IN  criada' = IF novas = {} THEN Nenhuma
                  ELSE LET t == CHOOSE x \in novas : TRUE
                           c == transacoes'[t].id_conta
                       IN  [id |-> t,
                            saldo |-> IF c \in DOMAIN contas THEN contas[c].saldo
                                      ELSE saldo_inicial'[c]]

\* The sequence caps, the row budget and the saldo limit bound the runs, not
\* the program.
Vaga == Linhas < MaxLinhas
Limite == \A c \in DOMAIN contas' : Abs(contas'[c].saldo) <= MaxSaldo
Atomico == Historia /\ UNCHANGED <<sess, pedido, corpo, servidos, tokens>>
Passo == Limite /\ Atomico
UpdatesDadas == {upd \in Updates : Campos(upd) <= MaxCampos}

\* one user's ledger
Next ==
    \/ (seq.usuario <= MaxUsuarios \/ Registado("joao")) /\ create_usuario("joao", "senha123") /\ Passo
    \/ \E u, id \in 1..MaxUsuarios : delete_usuario(u, id) /\ Passo
    \/ \E u \in 1..MaxUsuarios, s \in SaldosEntrada :
          seq.conta <= MaxContas /\ Vaga /\ create_conta(u, s) /\ Passo
    \/ \E u \in 1..MaxUsuarios, id \in 1..MaxContas :
          \E s \in IF ContaDe(u, id) THEN Opt(SaldosEntrada) ELSE {Unset} :
             update_conta(u, id, s) /\ Passo
    \/ \E u \in 1..MaxUsuarios, id \in 1..MaxContas : delete_conta(u, id) /\ Passo
    \/ \E u \in 1..MaxUsuarios, t \in Tipos :
          seq.categoria <= MaxCategorias /\ Vaga /\ create_categoria(u, t) /\ Passo
    \/ \E u \in 1..MaxUsuarios, id \in 1..MaxCategorias :
          \E t \in IF CategoriaDe(u, id) THEN Opt(Tipos) ELSE {Unset} :
             update_categoria(u, id, t) /\ Passo
    \/ \E u \in 1..MaxUsuarios, id \in 1..MaxCategorias : delete_categoria(u, id) /\ Passo
    \/ \E u \in 1..MaxUsuarios, c \in 1..MaxContas, k \in 1..MaxCategorias, t \in Tipos :
          \E v \in IF ContaDe(u, c) /\ CategoriaDe(u, k) THEN Valores ELSE {10},
             d \in IF ContaDe(u, c) /\ CategoriaDe(u, k) THEN Datas ELSE {1} :
             seq.transacao <= MaxTransacoes /\ Vaga
             /\ create_transacao(u, c, k, t, v, d) /\ Passo
    \/ \E u \in 1..MaxUsuarios, id \in 1..MaxTransacoes :
          \E upd \in IF TransacaoDe(u, id) THEN UpdatesDadas ELSE {NoUpdate} :
             update_transacao(u, id, upd) /\ Passo
    \/ \E u \in 1..MaxUsuarios, id \in 1..MaxTransacoes : delete_transacao(u, id) /\ Passo

Spec == Init /\ [][Next]_vars

\* the seeded store: POST /seed, DELETE /limpar-dados and the removals
NextSeed ==
    \/ seq.usuario < 2 * MaxSemeaduras /\ seed_database /\ Atomico
    \/ DOMAIN usuarios # {} /\ seed_database /\ Atomico
    \/ limpar_dados /\ Atomico
    \/ \E u \in DOMAIN usuarios, id \in DOMAIN transacoes : delete_transacao(u, id) /\ Atomico
    \/ \E u \in DOMAIN usuarios, id \in DOMAIN categorias : delete_categoria(u, id) /\ Atomico
    \/ \E e \in Emails, p \in Senhas :
          login(e, p) /\ Historia /\ UNCHANGED <<sess, pedido, corpo, servidos>>

SpecSeed == Init /\ [][NextSeed]_vars

\* the GET routes
Leituras == {"get_transacao", "list_transacoes", "get_conta", "get_categoria"}

\* several users' requests, one at a time, request validation and lookups
\* included; the history records the request that made the step.  The runs
\* create despesa categories, the tipo of a transaction request is free, and
\* an update body carries at most one field.
Pede(op, u, id) ==
    /\ pedido' = [op |-> op, u |-> u, id |-> id,
                  antes |-> Cardinality(DOMAIN transacoes),
                  repetido |-> (/\ op \in Leituras
                                /\ pedido.op = op /\ pedido.u = u /\ pedido.id = id)]
    /\ Limite /\ Historia /\ UNCHANGED <<sess, servidos, tokens>>
Escreve(op, u, id) == Pede(op, u, id) /\ corpo' = {}
Pessoas == 1..MaxPessoas
\* the runs register the addresses in one order
Proximo == IF seq.usuario = 1 THEN "joao" ELSE "maria"
UpdatesPedidas ==
    {NoUpdate}
    \cup {[NoUpdate EXCEPT !.valor = {v}] : v \in ValoresPedidos}
    \cup {[NoUpdate EXCEPT !.tipo = {t}] : t \in Tipos}
    \cup {[NoUpdate EXCEPT !.id_conta = {c}] : c \in 1..MaxContas}
    \cup {[NoUpdate EXCEPT !.id_categoria = {k}] : k \in 1..MaxCategorias}

NextMulti ==
    \/ \E e \in Emails :
          (Registado(e) \/ (seq.usuario <= MaxPessoas /\ e = Proximo))
          /\ create_usuario(e, "senha123") /\ Escreve("create_usuario", 0, 0)
    \/ \E u, id \in Pessoas : delete_usuario(u, id) /\ Escreve("delete_usuario", u, id)
    \/ \E u \in Pessoas :
          seq.conta <= MaxContas /\ Vaga
          /\ create_conta(u, 0) /\ Escreve("create_conta", u, 0)
    \/ \E u \in Pessoas, id \in 1..MaxContas :
          update_conta(u, id, Unset) /\ Escreve("update_conta", u, id)
    \/ \E u \in Pessoas, id \in 1..MaxContas :
          delete_conta(u, id) /\ Escreve("delete_conta", u, id)
    \/ \E u \in Pessoas :
          seq.categoria <= MaxCategorias /\ Vaga
          /\ create_categoria(u, "despesa") /\ Escreve("create_categoria", u, 0)
    \/ \E u \in Pessoas, id \in 1..MaxCategorias :
          update_categoria(u, id, Unset) /\ Escreve("update_categoria", u, id)
    \/ \E u \in Pessoas, id \in 1..MaxCategorias :
          delete_categoria(u, id) /\ Escreve("delete_categoria", u, id)
    \/ \E u \in Pessoas, c \in 1..MaxContas, k \in 1..MaxCategorias :
          \E t \in IF ContaDe(u, c) /\ CategoriaDe(u, k) THEN Tipos ELSE {"receita"},
             v \in ValoresPedidos :
             seq.transacao <= MaxTransacoes /\ Vaga
             /\ rota_create_transacao(u, c, k, t, v, 1)
             /\ Escreve("create_transacao", u, 0)
    \/ \E u \in Pessoas, id \in 1..MaxTransacoes :
          \E upd \in IF TransacaoDe(u, id) THEN UpdatesPedidas ELSE {NoUpdate} :
             rota_update_transacao(u, id, upd) /\ Escreve("update_transacao", u, id)
    \/ \E u \in Pessoas, id \in 1..MaxTransacoes :
          delete_transacao(u, id) /\ Escreve("delete_transacao", u, id)
    \/ \E u \in Pessoas, id \in 1..MaxTransacoes :
          get_transacao(u, id) /\ Pede("get_transacao", u, id)
    \/ \E u \in Pessoas : list_transacoes(u) /\ Pede("list_transacoes", u, 0)
    \/ \E u \in Pessoas, id \in 1..MaxContas :
          get_conta(u, id) /\ Pede("get_conta", u, id)
    \/ \E u \in Pessoas, id \in 1..MaxCategorias :
          get_categoria(u, id) /\ Pede("get_categoria", u, id)

SpecMulti == Init /\ [][NextMulti]_vars

\* one user's ledger with two accounts and several transactions
UpdatesLivro ==
    {[NoUpdate EXCEPT !.valor = {v}] : v \in {5, 10}}
    \cup {[NoUpdate EXCEPT !.tipo = {t}] : t \in Tipos}
    \cup {[NoUpdate EXCEPT !.id_conta = {c}] : c \in 1..MaxContas}
    \cup {[NoUpdate EXCEPT !.id_categoria = {k}] : k \in 1..MaxCategorias}
NextLivro ==
    \/ seq.usuario <= MaxUsuarios
       /\ create_usuario("joao", "senha123") /\ Escreve("create_usuario", 0, 0)
    \/ \E u \in 1..MaxUsuarios :
          seq.conta <= MaxContas
          /\ create_conta(u, 0) /\ Escreve("create_conta", u, 0)
    \/ \E u \in 1..MaxUsuarios, t \in Tipos :
          seq.categoria <= MaxCategorias
          /\ create_categoria(u, t) /\ Escreve("create_categoria", u, 0)
    \/ \E u \in 1..MaxUsuarios, c \in DOMAIN contas, k \in DOMAIN categorias,
          v \in {5, 10} :
          seq.transacao <= MaxLancamentos
          /\ create_transacao(u, c, k, categorias[k].tipo, v, 1)
          /\ Escreve("create_transacao", u, seq.transacao)
    \/ \E u \in 1..MaxUsuarios, id \in 1..MaxLancamentos, upd \in UpdatesLivro :
          id \in DOMAIN transacoes
          /\ update_transacao(u, id, upd) /\ Escreve("update_transacao", u, id)
    \/ \E u \in 1..MaxUsuarios, id \in 1..MaxLancamentos :
          delete_transacao(u, id) /\ Escreve("delete_transacao", u, id)

SpecLivro == Init /\ [][NextLivro]_vars

\* one user's requests served by concurrent sessions, amounts in whole cents
Centavos == {v \in Valores : Quantize(v) = v}
\* a request that gets past its queries counts as begun
Inicia(s) ==
    /\ servidos' = IF sess'[s].pc = "lido" THEN servidos + 1 ELSE servidos
    /\ servidos' <= MaxServidos
    /\ UNCHANGED <<criada, pedido, corpo, tokens>>
UpdatesConc ==
    {[NoUpdate EXCEPT !.valor = {v}] : v \in Centavos}
    \cup {[NoUpdate EXCEPT !.tipo = {t}] : t \in Tipos}
NextConc ==
    \/ seq.usuario <= MaxUsuarios /\ create_usuario("joao", "senha123") /\ Passo
    \/ \E u \in 1..MaxUsuarios :
          seq.conta <= MaxContas /\ Vaga /\ create_conta(u, 0) /\ Passo
    \/ \E u \in 1..MaxUsuarios, t \in Tipos :
          seq.categoria <= MaxCategorias /\ Vaga /\ create_categoria(u, t) /\ Passo
    \/ \E s \in Sessoes, u \in 1..MaxUsuarios, c \in 1..MaxContas,
          k \in 1..MaxCategorias, t \in Tipos, v \in Centavos :
          /\ seq.transacao + Cardinality({o \in Sessoes : sess[o].pc = "lido"
                                            /\ sess[o].op = "create"}) <= MaxSessoes
          /\ ler_create_transacao(s, u, c, k, t, v, 1)
          /\ Inicia(s)
    \/ \E s \in Sessoes, u \in 1..MaxUsuarios, id \in 1..MaxSessoes :
          ler_delete_transacao(s, u, id) /\ Inicia(s)
    \/ \E s \in Sessoes, u \in 1..MaxUsuarios, id \in 1..MaxSessoes :
          \E upd \in IF TransacaoDe(u, id) THEN UpdatesConc ELSE {NoUpdate} :
             ler_update_transacao(s, u, id, upd) /\ Inicia(s)
    \/ \E s \in Sessoes : escrever(s) /\ UNCHANGED <<criada, pedido, corpo, servidos, tokens>>
    \/ \E s \in Sessoes : falhar(s) /\ UNCHANGED <<criada, pedido, corpo, servidos, tokens>>
    \/ \E s \in Sessoes :
          confirmar(s) /\ Limite /\ Historia /\ UNCHANGED <<pedido, corpo, servidos, tokens>>

SpecConc == Init /\ [][NextConc]_vars

\* concurrent sessions on disjoint accounts: session s serves the ledger
\* requests on account s, and no request fails for a reason of its own
NextPar ==
    \/ seq.usuario <= MaxUsuarios /\ create_usuario("joao", "senha123") /\ Passo
    \/ \E u \in 1..MaxUsuarios :
          seq.conta <= MaxContas /\ Vaga /\ create_conta(u, 0) /\ Passo
    \/ \E u \in 1..MaxUsuarios, t \in Tipos :
          seq.categoria <= MaxCategorias /\ Vaga /\ create_categoria(u, t) /\ Passo
    \/ \E s \in Sessoes, u \in 1..MaxUsuarios, k \in 1..MaxCategorias,
          t \in Tipos, v \in Centavos :
          /\ seq.transacao + Cardinality({o \in Sessoes : sess[o].pc = "lido"
                                            /\ sess[o].op = "create"}) <= MaxSessoes
          /\ ContaDe(u, s) /\ CategoriaDe(u, k)
          /\ ler_create_transacao(s, u, s, k, t, v, 1)
          /\ Inicia(s)
    \/ \E s \in Sessoes, u \in 1..MaxUsuarios, id \in 1..MaxSessoes :
          /\ TransacaoDe(u, id) /\ transacoes[id].id_conta = s
          /\ ler_delete_transacao(s, u, id) /\ Inicia(s)
    \/ \E s \in Sessoes, u \in 1..MaxUsuarios, id \in 1..MaxSessoes, upd \in UpdatesConc :
          /\ TransacaoDe(u, id) /\ transacoes[id].id_conta = s
          /\ ler_update_transacao(s, u, id, upd) /\ Inicia(s)
    \/ \E s \in Sessoes : escrever(s) /\ UNCHANGED <<criada, pedido, corpo, servidos, tokens>>
    \/ \E s \in Sessoes :
          confirmar(s) /\ Limite /\ Historia /\ UNCHANGED <<pedido, corpo, servidos, tokens>>

SpecPar == Init /\ [][NextPar]_vars

\* the users and their tokens: registrations served by concurrent sessions,
\* logins, and the requests of token holders on /usuarios
Anota(op, u, id) ==
    /\ pedido' = [op |-> op, u |-> u, id |-> id, antes |-> 0, repetido |-> FALSE]
    /\ UNCHANGED <<criada, servidos>>
EmCurso == Cardinality({s \in Sessoes : sess[s].pc # "livre"})
NextAuth ==
    \/ \E s \in Sessoes, e \in Emails :
          /\ Registado(e) \/ seq.usuario + EmCurso <= MaxPessoas
          /\ ler_create_usuario(s, e, "senha123")
          /\ Anota("create_usuario", 0, 0) /\ UNCHANGED <<corpo, tokens>>
    \/ \E s \in Sessoes :
          inserir_usuario(s)
          /\ Anota("create_usuario", 0, 0) /\ UNCHANGED <<corpo, tokens>>
    \/ \E s \in Sessoes :
          confirmar_usuario(s)
          /\ Anota("create_usuario", 0, sess[s].id) /\ UNCHANGED <<corpo, tokens>>
    \/ \E e \in Emails, p \in Senhas :
          login(e, p) /\ Anota("login", 0, 0) /\ UNCHANGED <<sess, corpo>>
    \/ \E t \in tokens, id \in Pessoas, e \in Opt(Emails), p \in Opt({"senha456"}) :
          /\ \A x \in e : ~Pendente(x, 0)
          /\ rota_update_usuario(t, id, e, p)
          /\ Anota("update_usuario", get_current_user(t), id)
          /\ UNCHANGED <<sess, corpo, tokens>>
    \/ \E t \in tokens, id \in Pessoas :
          rota_delete_usuario(t, id)
          /\ Anota("delete_usuario", get_current_user(t), id)
          /\ UNCHANGED <<sess, corpo, tokens>>
    \/ \E t \in tokens :
          get_current_user_info(t)
          /\ Anota("get_current_user_info", get_current_user(t), 0)
          /\ UNCHANGED <<sess, tokens>>

SpecAuth == Init /\ [][NextAuth]_vars

\* ------------------------------------------------------------------ claims
RECURSIVE SomaDe(_, _)
\* sum of the signed contributions of the rows ts of a transacao table
SomaDe(tabela, ts) ==
    IF ts = {} THEN 0
    ELSE LET t == CHOOSE x \in ts : TRUE
         IN  Delta(tabela[t].tipo, tabela[t].valor) + SomaDe(tabela, ts \ {t})
Soma(ts) == SomaDe(transacoes, ts)

TransacoesDaConta(c) == {t \in DOMAIN transacoes : transacoes[t].id_conta = c}

\* C1: every account's saldo equals the saldo it was created with plus the
\* signed sum of the transactions that reference it.
C1_SaldoConsistente ==
    \A c \in DOMAIN contas :
        contas[c].saldo = saldo_inicial[c] + Soma(TransacoesDaConta(c))

\* C2: an update that moves a transaction from account A to another account B,
\* and changes nothing else, takes the signed delta off A and puts it on B.
C2_Reatribuicao ==
    [][\A t \in DOMAIN transacoes \cap DOMAIN transacoes' :
          LET a == transacoes[t].id_conta
              b == transacoes'[t].id_conta
              d == Delta(transacoes[t].tipo, transacoes[t].valor)
          IN  (a # b /\ transacoes' = [transacoes EXCEPT ![t].id_conta = b])
              => /\ contas'[a].saldo = contas[a].saldo - d
                 /\ contas'[b].saldo = contas[b].saldo + d]_vars

\* C3: an update_transacao whose resulting tipo differs from the tipo of the
\* resulting category is rejected with 400 and changes nothing in the store.
C3_UpdateRejeitaTipo ==
    [][\A u \in DOMAIN usuarios, id \in DOMAIN transacoes, upd \in UpdatesDadas :
          LET n == Aplicada(transacoes[id], upd)
          IN  (/\ TransacaoDe(u, id)
               /\ ContaDe(u, n.id_conta)
               /\ CategoriaDe(u, n.id_categoria)
               /\ n.tipo # categorias[n.id_categoria].tipo
               /\ update_transacao(u, id, upd))
              => (resp' = 400 /\ UNCHANGED store)]_vars

\* C4: every stored transaction has the tipo of the category it references.
C4_TipoDaCategoria ==
    \A t \in DOMAIN transacoes :
        transacoes[t].tipo = categorias[transacoes[t].id_categoria].tipo

\* C5: once the concurrent ledger requests have all committed, every account's
\* saldo reflects every committed delta: it is the saldo the account was
\* created with plus the signed sum of its transactions.
C5_SemAtualizacaoPerdida ==
    (\A s \in Sessoes : sess[s].pc = "livre")
    => \A c \in DOMAIN contas :
           contas[c].saldo = saldo_inicial[c] + Soma(TransacoesDaConta(c))

\* C6: update_conta never changes the saldo of an account.
C6_UpdateContaSemSaldo ==
    [][\A u \in DOMAIN usuarios, id \in DOMAIN contas, s \in Opt(SaldosEntrada) :
          update_conta(u, id, s)
          => \A c \in DOMAIN contas : contas'[c].saldo = contas[c].saldo]_vars

\* C7: when transaction rows are removed and their account stays, the account's
\* saldo goes back by the signed sum of the removed rows in the same step.
C7_RemocaoReverte ==
    [][\A c \in DOMAIN contas \cap DOMAIN contas' :
          LET idas == {t \in TransacoesDaConta(c) : t \notin DOMAIN transacoes'}
          IN  (idas # {} /\ \A t \in TransacoesDaConta(c) \ idas :
                               transacoes'[t] = transacoes[t])
              => contas'[c].saldo = contas[c].saldo - Soma(idas)]_vars

\* C8: every step that inserts transaction rows adds their signed valor to the
\* saldo of the account they reference (the saldo the account had before the
\* step, or was created with in the step).
C8_InsercaoAplicaSaldo ==
    [][\A c \in DOMAIN contas' :
          LET novas == {t \in DOMAIN transacoes' \ DOMAIN transacoes :
                           transacoes'[t].id_conta = c}
              antes == IF c \in DOMAIN contas THEN contas[c].saldo ELSE saldo_inicial'[c]
          IN  novas # {} => contas'[c].saldo = antes + SomaDe(transacoes', novas)]_vars

\* C9: create_transacao immediately followed by delete_transacao of the created
\* transaction gives the account the saldo it had before the create.
C9_IdaEVolta ==
    [][\A u \in DOMAIN usuarios :
          (criada.id # 0 /\ TransacaoDe(u, criada.id) /\ delete_transacao(u, criada.id))
          => /\ contas'[transacoes[criada.id].id_conta].saldo = criada.saldo
             /\ criada.id \notin DOMAIN transacoes']_vars

\* C10: an update_transacao that keeps the account changes the saldo by minus
\* the old signed delta plus the new signed delta of the transaction.
C10_UpdateMesmaConta ==
    [][\A t \in DOMAIN transacoes \cap DOMAIN transacoes' :
          LET a == transacoes[t].id_conta
          IN  (transacoes'[t] # transacoes[t] /\ transacoes'[t].id_conta = a)
              => contas'[a].saldo = contas[a].saldo
                     - Delta(transacoes[t].tipo, transacoes[t].valor)
                     + Delta(transacoes'[t].tipo, transacoes'[t].valor)]_vars

\* C11: create_transacao with a tipo other than the tipo of the caller's
\* category answers 400, stores no transaction and changes no saldo.
C11_CreateRejeitaTipo ==
    [][pedido'.op = "create_transacao" =>
       \A u \in {pedido'.u}, c \in DOMAIN contas, k \in DOMAIN categorias,
          t \in Tipos, v \in ValoresPedidos :
          (/\ contas[c].id_usuario = u
           /\ categorias[k].id_usuario = u
           /\ v > 0
           /\ t # categorias[k].tipo
           /\ rota_create_transacao(u, c, k, t, v, 1))
          => (resp' = 400 /\ transacoes' = transacoes /\ contas' = contas)]_vars

C11_Visto ==
    /\ pedido.op = "create_transacao"
    /\ resp = 400
    /\ \E c \in DOMAIN contas, k \in DOMAIN categorias :
          contas[c].id_usuario = pedido.u /\ categorias[k].id_usuario = pedido.u

\* C12: create_transacao naming an account or a category that is not the
\* caller's (absent, or another user's) answers 404; no account, category or
\* transaction is created and no saldo changes.
C12_CreateNaoEncontra ==
    [][pedido'.op = "create_transacao" =>
       \A u \in {pedido'.u}, c \in 1..MaxContas, k \in 1..MaxCategorias,
          t \in Tipos, v \in ValoresPedidos :
          (/\ v > 0
           /\ \/ c \notin DOMAIN contas
              \/ contas[c].id_usuario # u
              \/ k \notin DOMAIN categorias
              \/ categorias[k].id_usuario # u
           /\ rota_create_transacao(u, c, k, t, v, 1))
          => (/\ resp' = 404
              /\ contas' = contas
              /\ categorias' = categorias
              /\ transacoes' = transacoes)]_vars

\* a create answered 404 when every account id belongs to another user
C12_Visto ==
    /\ pedido.op = "create_transacao"
    /\ resp = 404
    /\ pedido.u \in DOMAIN usuarios
    /\ \A c \in 1..MaxContas : c \in DOMAIN contas /\ contas[c].id_usuario # pedido.u
    /\ \E k \in DOMAIN categorias : categorias[k].id_usuario = pedido.u

\* C13: update_transacao answers 404 when the transaction is not the
\* caller's, or when the body names an account or a category that is not the
\* caller's; then no transaction and no saldo changes.
C13_UpdateNaoEncontra ==
    [][pedido'.op = "update_transacao" =>
       \A u \in {pedido'.u}, id \in {pedido'.id}, upd \in UpdatesPedidas :
          (/\ \A v \in upd.valor : v > 0
           /\ \/ id \notin DOMAIN transacoes
              \/ transacoes[id].id_usuario # u
              \/ \E c \in upd.id_conta :
                    c \notin DOMAIN contas \/ contas[c].id_usuario # u
              \/ \E k \in upd.id_categoria :
                    k \notin DOMAIN categorias \/ categorias[k].id_usuario # u
           /\ rota_update_transacao(u, id, upd))
          => (resp' = 404 /\ transacoes' = transacoes /\ contas' = contas)]_vars

\* an update of the caller's own transaction answered 404 while another user
\* has an account or a category
C13_Visto ==
    /\ pedido.op = "update_transacao"
    /\ resp = 404
    /\ pedido.id \in DOMAIN transacoes
    /\ transacoes[pedido.id].id_usuario = pedido.u
    /\ \/ \E c \in DOMAIN contas : contas[c].id_usuario # pedido.u
       \/ \E k \in DOMAIN categorias : categorias[k].id_usuario # pedido.u

\* C14: a create_transacao or update_transacao whose valor is zero or negative
\* is answered with a validation error (422) and leaves every transaction and
\* every saldo as it was.
C14_ValorInvalido ==
    [][pedido'.op \in {"create_transacao", "update_transacao"} =>
       /\ \A u \in {pedido'.u}, c \in 1..MaxContas, k \in 1..MaxCategorias,
             t \in Tipos, v \in ValoresPedidos :
             (v <= 0 /\ rota_create_transacao(u, c, k, t, v, 1))
             => (resp' = 422 /\ transacoes' = transacoes /\ contas' = contas)
       /\ \A u \in {pedido'.u}, id \in {pedido'.id}, upd \in UpdatesPedidas :
             ((\E v \in upd.valor : v <= 0) /\ rota_update_transacao(u, id, upd))
             => (resp' = 422 /\ transacoes' = transacoes /\ contas' = contas)]_vars

\* an update of the caller's own transaction answered 422
C14_Visto ==
    /\ pedido.op = "update_transacao"
    /\ resp = 422
    /\ pedido.id \in DOMAIN transacoes
    /\ transacoes[pedido.id].id_usuario = pedido.u

\* C15: a ledger request that fails before or in its commit is answered 500,
\* is not tried again, and leaves every transaction and every saldo as it was;
\* and a step that changes a transaction or a saldo is the commit of one
\* session, which writes its saldo and its transaction row together.
C15_CommitAtomico ==
    [][/\ \A s \in Sessoes :
             falhar(s) => /\ transacoes' = transacoes
                          /\ contas' = contas
                          /\ resp' = 500
                          /\ sess'[s].pc = "livre"
       /\ (\/ transacoes' # transacoes
           \/ \E c \in DOMAIN contas \cap DOMAIN contas' :
                 contas'[c].saldo # contas[c].saldo)
          => \E s \in Sessoes :
                /\ sess[s].pc = "escrito"
                /\ sess'[s].pc = "livre"
                /\ contas'[sess[s].conta].saldo = Quantize(sess[s].saldo)
                /\ CASE sess[s].op = "create" ->
                           /\ sess[s].id \in DOMAIN transacoes'
                           /\ transacoes'[sess[s].id] = sess[s].linha
                     [] sess[s].op = "update" ->
                           \A f \in {"valor", "tipo"} :
                              \A x \in sess[s].linha[f] : transacoes'[sess[s].id][f] = x
                     [] OTHER -> sess[s].id \notin DOMAIN transacoes']_vars

\* the only request begun was a create that flushed its writes and then failed
C15_Visto ==
    /\ resp = 500
    /\ servidos = 1
    /\ seq.transacao > 1
    /\ transacoes = Empty
    /\ \A s \in Sessoes : sess[s].pc = "livre"

\* C16: the account and the category a transaction references belong to the
\* user the transaction belongs to.
C16_SemReferenciaCruzada ==
    \A t \in DOMAIN transacoes :
        /\ transacoes[t].id_conta \in DOMAIN contas
           => contas[transacoes[t].id_conta].id_usuario = transacoes[t].id_usuario
        /\ transacoes[t].id_categoria \in DOMAIN categorias
           => categorias[transacoes[t].id_categoria].id_usuario = transacoes[t].id_usuario

\* an update_transacao has succeeded while another user owns an account
C16_Visto ==
    /\ pedido.op = "update_transacao"
    /\ resp = 200
    /\ pedido.id \in DOMAIN transacoes
    /\ \E c \in DOMAIN contas : contas[c].id_usuario # transacoes[pedido.id].id_usuario

\* C17: a get, update or delete (with a valid body) of a transaction, an
\* account or a category that belongs to another user answers 404 and changes
\* no record and no saldo.
C17_AlheioNaoEncontrado ==
    [][\A u \in {pedido'.u}, id \in {pedido'.id} :
          /\ (/\ id \in DOMAIN transacoes
               /\ transacoes[id].id_usuario # u
               /\ \/ get_transacao(u, id)
                  \/ \E upd \in UpdatesPedidas :
                        TransacaoUpdate(upd) /\ rota_update_transacao(u, id, upd)
                  \/ delete_transacao(u, id))
              => (resp' = 404 /\ UNCHANGED <<usuarios, contas, categorias, transacoes>>)
          /\ (/\ id \in DOMAIN contas
               /\ contas[id].id_usuario # u
               /\ \/ get_conta(u, id)
                  \/ \E s \in Opt(SaldosEntrada) : update_conta(u, id, s)
                  \/ delete_conta(u, id))
              => (resp' = 404 /\ UNCHANGED <<usuarios, contas, categorias, transacoes>>)
          /\ (/\ id \in DOMAIN categorias
               /\ categorias[id].id_usuario # u
               /\ \/ get_categoria(u, id)
                  \/ \E t \in Opt(Tipos) : update_categoria(u, id, t)
                  \/ delete_categoria(u, id))
              => (resp' = 404 /\ UNCHANGED <<usuarios, contas, categorias, transacoes>>)]_vars

\* a registered user's delete of another user's account was answered 404
C17_Visto ==
    /\ pedido.op = "delete_conta"
    /\ resp = 404
    /\ pedido.u \in DOMAIN usuarios
    /\ pedido.id \in DOMAIN contas
    /\ contas[pedido.id].id_usuario # pedido.u

\* C18: every account, category and transaction belongs to an existing user,
\* and every transaction references an existing account and an existing
\* category: the rows of a deleted user, and the transactions of a deleted
\* account or category, are gone with it.
C18_ReferenciasExistem ==
    /\ \A c \in DOMAIN contas : contas[c].id_usuario \in DOMAIN usuarios
    /\ \A k \in DOMAIN categorias : categorias[k].id_usuario \in DOMAIN usuarios
    /\ \A t \in DOMAIN transacoes :
          /\ transacoes[t].id_usuario \in DOMAIN usuarios
          /\ transacoes[t].id_conta \in DOMAIN contas
          /\ transacoes[t].id_categoria \in DOMAIN categorias

\* a delete_usuario found a transaction and left none
C18_Visto ==
    /\ pedido.op = "delete_usuario"
    /\ resp = 200
    /\ pedido.antes > 0
    /\ transacoes = Empty

\* C19: in every reachable state every stored transaction has a valor
\* strictly greater than zero, whatever accepted amount it was written from.
C19_ValorPositivo ==
    \A t \in DOMAIN transacoes : transacoes[t].valor > 0

\* C20: get_transacao and list_transacoes change no stored row, and a lookup
\* that directly follows the same lookup (same caller, same transaction, no
\* other request between them) answers with the same status and the same
\* field values.
C20_LeituraEstavel ==
    [][/\ pedido'.op \in {"get_transacao", "list_transacoes"}
          => UNCHANGED <<usuarios, contas, categorias, transacoes, seq, saldo_inicial>>
       /\ (/\ pedido'.op \in {"get_transacao", "list_transacoes"}
           /\ pedido.op = pedido'.op
           /\ pedido.u = pedido'.u
           /\ pedido.id = pedido'.id)
          => (resp' = resp /\ corpo' = corpo)]_vars

\* the second of two successive lookups of a transaction returned its fields
C20_Visto ==
    /\ pedido.op = "get_transacao"
    /\ pedido.repetido
    /\ resp = 200
    /\ \E l \in corpo : l.id_transacao = pedido.id

\* C21: ledger requests on disjoint accounts run fully in parallel: a request
\* that has read can always flush, its flush and its commit succeed, and its
\* commit gives every account the saldo that running the request alone at
\* that point gives it (the saldo before plus the change of the signed sum of
\* the account's transactions), whatever the other session is doing.
C21_ContasDisjuntas ==
    /\ [](\A s \in Sessoes : sess[s].pc = "lido" => ENABLED escrever(s))
    /\ [][\A s \in Sessoes :
             /\ escrever(s) => sess'[s].pc = "escrito"
             /\ confirmar(s)
                => /\ resp' \in {200, 201}
                   /\ \A c \in DOMAIN contas :
                         contas'[c].saldo =
                             contas[c].saldo
                             + SomaDe(transacoes', {t \in DOMAIN transacoes' :
                                                      transacoes'[t].id_conta = c})
                             - Soma(TransacoesDaConta(c))]_vars

\* both sessions hold the flushed writes of their requests at once, one on
\* each account
C21_Visto ==
    /\ sess[1].pc = "escrito"
    /\ sess[2].pc = "escrito"
    /\ sess[1].conta # sess[2].conta

\* C22: no two users ever hold the same email; a registration and an
\* update_usuario asking for an email another user holds are answered 400 and
\* change no user, and of registrations of one email that run concurrently at
\* most one commits.
C22_EmailUnico ==
    /\ [](\A u, v \in DOMAIN usuarios :
             usuarios[u].email = usuarios[v].email => u = v)
    /\ [][/\ \A s \in Sessoes, e \in Emails :
                (/\ \E v \in DOMAIN usuarios : usuarios[v].email = e
                 /\ ler_create_usuario(s, e, "senha123"))
                => (resp' = 400 /\ usuarios' = usuarios /\ sess' = sess)
          /\ \A t \in tokens, e \in Emails, p \in Opt({"senha456"}) :
                LET u == get_current_user(t)
                IN  (/\ u # 0
                     /\ \E v \in DOMAIN usuarios \ {u} : usuarios[v].email = e
                     /\ rota_update_usuario(t, u, {e}, p))
                    => (resp' = 400 /\ usuarios' = usuarios)]_vars

\* of two registrations of one email in flight together, one has committed
\* and the other's INSERT has failed
C22_Visto ==
    /\ pedido.op = "create_usuario"
    /\ resp = 500
    /\ \E s \in Sessoes : sess[s].pc = "livre"
    /\ usuarios # Empty

\* C23: update_usuario and delete_usuario with a path id other than the
\* authenticated user's answer 403 and change nothing, whether a user with
\* that id exists or not; the only user row a PUT or DELETE /usuarios/{id}
\* changes or removes is the caller's own.
C23_SoOProprio ==
    [][/\ \A t \in tokens, id \in Pessoas :
             LET u == get_current_user(t)
             IN  (/\ u # 0
                  /\ id # u
                  /\ \/ \E e \in Opt(Emails), p \in Opt({"senha456"}) :
                           rota_update_usuario(t, id, e, p)
                     \/ rota_delete_usuario(t, id))
                 => (resp' = 403
                     /\ UNCHANGED <<usuarios, contas, categorias, transacoes>>)
       /\ pedido'.op \in {"update_usuario", "delete_usuario"}
          => \A x \in DOMAIN usuarios :
                (x \notin DOMAIN usuarios' \/ usuarios'[x] # usuarios[x])
                => x = pedido'.u]_vars

\* a token holder asked to change or delete a user id that no user has, and
\* was answered 403
C23_Visto ==
    /\ pedido.op \in {"update_usuario", "delete_usuario"}
    /\ pedido.u \in DOMAIN usuarios
    /\ pedido.id # pedido.u
    /\ pedido.id \notin DOMAIN usuarios
    /\ resp = 403

\* C24: POST /seed changes nothing when a user exists; on the empty store it
\* creates exactly 2 users, 5 accounts, 6 categories and 5 transactions in one
\* step, and then the login joao / senha123 succeeds; a store without users
\* has no rows at all; DELETE /limpar-dados leaves the four tables empty, so
\* the seed after it creates the dataset.
C24_SeedELimpar ==
    /\ [](DOMAIN usuarios = {}
           => (contas = Empty /\ categorias = Empty /\ transacoes = Empty))
    /\ [][/\ (seed_database /\ DOMAIN usuarios # {})
             => UNCHANGED <<usuarios, contas, categorias, transacoes, seq>>
          /\ (seed_database /\ DOMAIN usuarios = {})
             => /\ Cardinality(DOMAIN usuarios') = 2
                /\ Cardinality(DOMAIN contas') = 5
                /\ Cardinality(DOMAIN categorias') = 6
                /\ Cardinality(DOMAIN transacoes') = 5
                /\ \E u \in DOMAIN usuarios' :
                      /\ usuarios'[u].email = "joao"
                      /\ verify_password("senha123", usuarios'[u].senha)
          /\ (login("joao", "senha123") /\ DOMAIN usuarios # {})
             => (resp' = 200 /\ \E t \in tokens' : t.sub = "joao")
          /\ limpar_dados
             => (/\ usuarios' = Empty /\ contas' = Empty
                 /\ categorias' = Empty /\ transacoes' = Empty)]_vars

\* the store was seeded, emptied and seeded again, and joao of the second
\* dataset has logged in
C24_Visto ==
    /\ resp = 200
    /\ \E t \in tokens : t.sub = "joao" /\ t.id_usuario = 3 /\ t.id_usuario \in DOMAIN usuarios
    /\ Cardinality(DOMAIN usuarios) = 2
    /\ Cardinality(DOMAIN contas) = 5

\* C25: get_conta of an account the caller owns always succeeds, whatever the
\* saldo of the account; it answers 404 only for an id that no account of the
\* caller has, and fails in no other way.
C25_ContaSempreLegivel ==
    [][pedido'.op = "get_conta"
       => IF pedido'.id \in DOMAIN contas
             /\ contas[pedido'.id].id_usuario = pedido'.u
          THEN resp' = 200 /\ \E c \in corpo' : c.saldo = contas[pedido'.id].saldo
          ELSE resp' = 404]_vars

\* C26: a token authenticates only the user it was issued to: whatever has
\* happened since the login, get_current_user with the token finds that user
\* or nobody (401), never another user.
C26_TokenSoDoTitular ==
    \A t \in tokens : get_current_user(t) \in {0, t.id_usuario}

\* C27: create_transacao of a despesa on an account and a despesa category
\* of the caller succeeds for every valor > 0, whatever the saldo of the
\* account, and leaves the saldo at the old saldo minus valor, negative or not.
C27_DespesaSemLimite ==
    [][pedido'.op = "create_transacao" =>
       \A u \in {pedido'.u}, c \in DOMAIN contas, k \in DOMAIN categorias,
          v \in ValoresPedidos :
          (/\ v > 0
           /\ contas[c].id_usuario = u
           /\ categorias[k].id_usuario = u
           /\ categorias[k].tipo = "despesa"
           /\ rota_create_transacao(u, c, k, "despesa", v, 1))
          => (resp' = 201 /\ contas'[c].saldo = contas[c].saldo - v)]_vars

\* C28: create_transacao, update_transacao and delete_transacao add, change
\* or remove no transaction but their own (the one created, or the one of the
\* path id); they change the saldo of no account but the ones that
\* transaction references before or after the request, add and remove no
\* account, and change no category and no user.
C28_SoAsContasReferidas ==
    [][pedido'.op \in {"create_transacao", "update_transacao", "delete_transacao"} =>
       LET alvo == IF pedido'.op = "create_transacao"
                   THEN DOMAIN transacoes' \ DOMAIN transacoes
                   ELSE {pedido'.id}
           referidas == {transacoes[t].id_conta : t \in alvo \cap DOMAIN transacoes}
                        \cup {transacoes'[t].id_conta : t \in alvo \cap DOMAIN transacoes'}
       IN  /\ Cardinality(alvo) <= 1
           /\ \A t \in DOMAIN transacoes \ alvo :
                 t \in DOMAIN transacoes' /\ transacoes'[t] = transacoes[t]
           /\ DOMAIN transacoes' \subseteq DOMAIN transacoes \cup alvo
           /\ DOMAIN contas' = DOMAIN contas
           /\ \A c \in DOMAIN contas \ referidas : contas'[c] = contas[c]
           /\ \A c \in DOMAIN contas : contas'[c].id_usuario = contas[c].id_usuario
           /\ categorias' = categorias
           /\ usuarios' = usuarios]_vars

\* one of two transactions of different accounts has been removed, and the
\* other transaction and its account are still there
C28_Visto ==
    /\ pedido.op = "delete_transacao"
    /\ resp = 200
    /\ pedido.antes = 2
    /\ \E t \in DOMAIN transacoes :
          /\ t # pedido.id
          /\ Cardinality(DOMAIN contas) = 2
          /\ contas[transacoes[t].id_conta].saldo # 0
====
